---------------------------- MODULE Spec2Model ----------------------------
(***************************************************************************)
(* A model of simpleubjson's Draft-8 codec (src/simpleubjson/draft8.py):   *)
(* the TLV reader next_tlv, the value decoder with its sized and unsized   *)
(* (streaming) containers, the value encoder, and the class-level dispatch *)
(* tables the sessions are built from.                                     *)
(*                                                                         *)
(* Bytes are the numbers 0..255 and a byte string is a sequence of them.   *)
(* Python integers are unbounded, so an integer is kept as a sign and a    *)
(* big-endian magnitude in bytes, never as a machine number.               *)
(***************************************************************************)
EXTENDS Integers, Sequences, FiniteSets, TLC

(***************************************************************************)
(* Markers (draft8.py 23-41) and the marker sets (46-53).                  *)
(***************************************************************************)
NOOP == 78
EOS == 69
NULL == 90
FALSE_ == 70
TRUE_ == 84
INT8 == 66
INT16 == 105
INT32 == 73
INT64 == 76
FLOAT == 100
DOUBLE == 68
STRING_S == 115
STRING_L == 83
HIDEF_S == 104
HIDEF_L == 72
ARRAY_S == 97
OBJECT_S == 111
ARRAY_L == 65
OBJECT_L == 79

CONSTANTS_ == {NOOP, EOS, NULL, FALSE_, TRUE_}
NUMBERS == {INT8, INT16, INT32, INT64, FLOAT, DOUBLE}
STRINGS == {STRING_S, STRING_L, HIDEF_S, HIDEF_L}
SHORT_OBJ == {STRING_S, HIDEF_S, ARRAY_S, OBJECT_S}
LARGE_OBJ == {STRING_L, HIDEF_L, ARRAY_L, OBJECT_L}
STREAMS == {ARRAY_S, OBJECT_S}
OBJECT_KEYS == {STRING_S, STRING_L}
FORBIDDEN == {NOOP, EOS}

\* The length sentinel of an unsized container, and the first text length
\* the short form does not take (both written 255 in the source).
UNSIZED == 255
SHORT_LIMIT == 255

(***************************************************************************)
(* Byte strings.                                                           *)
(***************************************************************************)
Min(a, b) == IF a < b THEN a ELSE b

\* F applied to the value of v, v evaluated once: as Python evaluates a call
\* once and names its result
Bind(v, F(_)) == CHOOSE r \in {F(x) : x \in {v}} : TRUE

Front(s) == SubSeq(s, 1, Len(s) - 1)

Rep(n, x) == [i \in 1..n |-> x]

\* the concatenation of a sequence of byte strings (by halves: a text of
\* the long form has more characters than a recursion can be deep)
RECURSIVE Flatten(_)
Flatten(ss) ==
    IF ss = <<>> THEN <<>>
    ELSE IF Len(ss) = 1 THEN ss[1]
    ELSE LET h == Len(ss) \div 2
         IN  Flatten(SubSeq(ss, 1, h)) \o Flatten(SubSeq(ss, h + 1, Len(ss)))

(***************************************************************************)
(* Unbounded integers: [neg, mag], mag the big-endian magnitude without    *)
(* leading zero bytes; zero is [neg |-> FALSE, mag |-> <<>>].              *)
(***************************************************************************)
RECURSIVE Strip(_)
Strip(m) == IF m # <<>> /\ Head(m) = 0 THEN Strip(Tail(m)) ELSE m

RECURSIVE MagOfNat(_)
MagOfNat(n) == IF n = 0 THEN <<>> ELSE Append(MagOfNat(n \div 256), n % 256)

RECURSIVE NatOfMag(_)
NatOfMag(m) == IF m = <<>> THEN 0 ELSE NatOfMag(Front(m)) * 256 + m[Len(m)]

VInt(neg, mag) == [kind |-> "int", neg |-> neg, mag |-> mag]

IntOf(i) == VInt(i < 0, MagOfNat(IF i < 0 THEN -i ELSE i))

\* the value of an integer known to be small
SmallOf(n) == IF n.neg THEN -NatOfMag(n.mag) ELSE NatOfMag(n.mag)

RECURSIVE LexLess(_, _)
LexLess(a, b) ==
    IF a = <<>> THEN FALSE
    ELSE IF Head(a) # Head(b) THEN Head(a) < Head(b)
    ELSE LexLess(Tail(a), Tail(b))

MagLess(a, b) == Len(a) < Len(b) \/ (Len(a) = Len(b) /\ LexLess(a, b))

\* a <= b on unbounded integers
IntLE(a, b) ==
    IF a.neg /\ ~b.neg THEN TRUE
    ELSE IF ~a.neg /\ b.neg THEN FALSE
    ELSE IF a.neg THEN ~MagLess(a.mag, b.mag)
    ELSE ~MagLess(b.mag, a.mag)

\* 2^k and 2^k - 1 as magnitudes (k >= 1)
Pow2(k) == IF k = 0 THEN 1 ELSE IF k = 1 THEN 2 ELSE IF k = 2 THEN 4
           ELSE IF k = 3 THEN 8 ELSE IF k = 4 THEN 16 ELSE IF k = 5 THEN 32
           ELSE IF k = 6 THEN 64 ELSE 128

MagPow2(k) == <<Pow2(k % 8)>> \o Rep(k \div 8, 0)

MagPow2Less1(k) == Strip(<<Pow2(k % 8) - 1>> \o Rep(k \div 8, 255))

\* m + 1 and m - 1 on a fixed-width byte string (m - 1 needs m > 0)
RECURSIVE MagInc(_)
MagInc(m) ==
    IF m = <<>> THEN <<1>>
    ELSE IF m[Len(m)] < 255 THEN Append(Front(m), m[Len(m)] + 1)
    ELSE Append(MagInc(Front(m)), 0)

RECURSIVE MagDec(_)
MagDec(m) ==
    IF m[Len(m)] > 0 THEN Append(Front(m), m[Len(m)] - 1)
    ELSE Append(MagDec(Front(m)), 255)

Complement(bs) == [i \in 1..Len(bs) |-> 255 - bs[i]]

PadLeft(m, w) == Rep(w - Len(m), 0) \o m

\* struct.pack('>b' / '>h' / '>i' / '>q', n): n in the signed range of w bytes
PackSigned(w, n) ==
    IF ~n.neg THEN PadLeft(n.mag, w)
    ELSE Complement(PadLeft(Strip(MagDec(n.mag)), w))

\* struct.unpack of a signed big-endian field
UnpackSigned(bs) ==
    IF bs[1] >= 128 THEN VInt(TRUE, Strip(MagInc(Complement(bs))))
    ELSE VInt(FALSE, Strip(bs))

\* Every length of 2^31 or more is read as 2^31 - 1: no source of the model
\* is that long, so a read of either count returns the rest of the source.
HUGE_LENGTH == 2147483647

\* struct.unpack('>I', bs) and struct.pack('>I' / '>i', n) of a length
UnpackLength(bs) ==
    IF bs[1] >= 128 THEN HUGE_LENGTH
    ELSE ((bs[1] * 256 + bs[2]) * 256 + bs[3]) * 256 + bs[4]

PackLength(n) == PadLeft(MagOfNat(n), 4)

\* decimal digits of a magnitude, most significant first (long division)
RECURSIVE MagDiv10(_)
MagDiv10(m) ==
    IF m = <<>> THEN [q |-> <<>>, r |-> 0]
    ELSE Bind(MagDiv10(Front(m)), LAMBDA p :
            LET c == p.r * 256 + m[Len(m)]
            IN  [q |-> Append(p.q, c \div 10), r |-> c % 10])

RECURSIVE DecDigitsRec(_)
DecDigitsRec(m) ==
    IF m = <<>> THEN <<>>
    ELSE Bind(MagDiv10(m), LAMBDA d : Append(DecDigitsRec(Strip(d.q)), d.r))

DecDigits(m) == IF m = <<>> THEN <<0>> ELSE DecDigitsRec(m)

(***************************************************************************)
(* Python values.  Every value is a record with a kind; a text (unicode)   *)
(* is its sequence of code points, a byte string (str) its bytes.  A float *)
(* is kept as the raw bytes it was unpacked from: float arithmetic is      *)
(* outside the model.                                                      *)
(***************************************************************************)
VNone == [kind |-> "none"]
VNoop == [kind |-> "NoopType"]
VBool(b) == [kind |-> "bool", b |-> b]
VText(cps) == [kind |-> "unicode", cps |-> cps]
VStr(bs) == [kind |-> "str", bytes |-> bs]
VFloat(raw) == [kind |-> "float", raw |-> raw]
VDec(sign, digits, exp) ==
    [kind |-> "Decimal", sign |-> sign, digits |-> digits, exp |-> exp]
VList(items) == [kind |-> "list", items |-> items]
VTuple(items) == [kind |-> "tuple", items |-> items]
VDict(map) == [kind |-> "dict", map |-> map]
\* what decode_array_stream / decode_object_stream return: a generator that
\* has not run yet and reads from the session's source when it runs
VGen(of) == [kind |-> "generator", of |-> of]
\* values only the encoder is given: a lazy sequence (xrange, generator,
\* dict key or value iterator) and a dict item iterator, with what they yield
VIter(items) == [kind |-> "iterator", items |-> items]
VItems(pairs) == [kind |-> "dictitems", items |-> pairs]

EmptyMap == [k \in {} |-> VNone]

\* res[key] = value
MapPut(m, k, v) == [x \in DOMAIN m \cup {k} |-> IF x = k THEN v ELSE m[x]]

\* The order in which a Python 2 dict is iterated: fixed for a given key
\* set, and not related to the order of insertion.
RECURSIVE KeyOrder(_)
KeyOrder(S) ==
    IF S = {} THEN <<>>
    ELSE LET k == CHOOSE x \in S : TRUE IN <<k>> \o KeyOrder(S \ {k})

\* bool(v)
Truthy(v) ==
    CASE v.kind = "none" -> FALSE
      [] v.kind = "bool" -> v.b
      [] v.kind = "int" -> v.mag # <<>>
      [] v.kind = "unicode" -> v.cps # <<>>
      [] v.kind = "str" -> v.bytes # <<>>
      [] v.kind \in {"list", "tuple"} -> v.items # <<>>
      [] v.kind = "dict" -> DOMAIN v.map # {}
      [] v.kind = "Decimal" -> \E i \in 1..Len(v.digits) : v.digits[i] # 0
      [] OTHER -> TRUE

(***************************************************************************)
(* UTF-8: unicode.encode('utf-8') and str.decode('utf-8') (strict).        *)
(***************************************************************************)
EncodeCp(c) ==
    IF c < 128 THEN <<c>>
    ELSE IF c < 2048 THEN <<192 + (c \div 64), 128 + (c % 64)>>
    ELSE IF c < 65536
         THEN <<224 + (c \div 4096), 128 + ((c \div 64) % 64), 128 + (c % 64)>>
    ELSE <<240 + (c \div 262144), 128 + ((c \div 4096) % 64),
           128 + ((c \div 64) % 64), 128 + (c % 64)>>

Utf8Encode(cps) == Flatten([i \in 1..Len(cps) |-> EncodeCp(cps[i])])

IsCont(b) == b >= 128 /\ b < 192

\* how many bytes the sequence led by b takes; 0 when b leads none
LeadWidth(b) ==
    IF b < 128 THEN 1
    ELSE IF b >= 194 /\ b <= 223 THEN 2
    ELSE IF b >= 224 /\ b <= 239 THEN 3
    ELSE IF b >= 240 /\ b <= 244 THEN 4
    ELSE 0

\* A byte string is valid UTF-8 exactly when its first byte is no
\* continuation byte and every other byte that is none leads a sequence of
\* its width that is followed by the end or by another such byte.
IsCharAt(bs, i) ==
    LET b == bs[i]
        w == LeadWidth(b)
    IN  /\ w > 0
        /\ i + w - 1 <= Len(bs)
        /\ \A j \in (i + 1)..(i + w - 1) : IsCont(bs[j])
        /\ (i + w <= Len(bs) => ~IsCont(bs[i + w]))
        /\ (b = 224 => bs[i + 1] >= 160)
        /\ (b = 240 => bs[i + 1] >= 144)
        /\ (b = 244 => bs[i + 1] <= 143)

CodePointAt(bs, i) ==
    LET b == bs[i]
        w == LeadWidth(b)
    IN  IF w = 1 THEN b
        ELSE IF w = 2 THEN (b - 192) * 64 + (bs[i + 1] - 128)
        ELSE IF w = 3
             THEN ((b - 224) * 64 + (bs[i + 1] - 128)) * 64 + (bs[i + 2] - 128)
        ELSE (((b - 240) * 64 + (bs[i + 1] - 128)) * 64 + (bs[i + 2] - 128)) * 64
             + (bs[i + 3] - 128)

IsCodePoint(x) == x >= 0

Utf8Decode(bs) ==
    LET ok == /\ bs # <<>> => ~IsCont(bs[1])
              /\ \A i \in 1..Len(bs) : IsCont(bs[i]) \/ IsCharAt(bs, i)
        marks == [i \in 1..Len(bs) |->
                     IF IsCont(bs[i]) THEN -1 ELSE CodePointAt(bs, i)]
    IN  IF ~ok THEN [err |-> "UnicodeDecodeError", cps |-> <<>>]
        ELSE [err |-> "", cps |-> SelectSeq(marks, IsCodePoint)]

(***************************************************************************)
(* decimal.Decimal: unicode(d) for a finite d whose exponent is at most 0  *)
(* and that has more than -6 digits left of the point (str() is positional *)
(* there), and Decimal(text) for a text of the shape [+-]digits[.digits].  *)
(* The decoder's sources hold no decimal text of another shape.            *)
(***************************************************************************)
DigitChars(ds) == [i \in 1..Len(ds) |-> 48 + ds[i]]

DecimalStr(d) ==
    LET left == Len(d.digits) + d.exp
        body == IF d.exp = 0 THEN DigitChars(d.digits)
                ELSE IF left > 0
                     THEN DigitChars(SubSeq(d.digits, 1, left)) \o <<46>>
                          \o DigitChars(SubSeq(d.digits, left + 1, Len(d.digits)))
                ELSE <<48, 46>> \o Rep(-left, 48) \o DigitChars(d.digits)
    IN  (IF d.sign = 1 THEN <<45>> ELSE <<>>) \o body

\* Decimal(n) of an integer n
DecimalOfInt(n) == VDec(IF n.neg THEN 1 ELSE 0, DecDigits(n.mag), 0)

IsDigit(c) == c >= 48 /\ c <= 57

RECURSIVE StripZeroDigits(_)
StripZeroDigits(ds) ==
    IF Len(ds) > 1 /\ Head(ds) = 0 THEN StripZeroDigits(Tail(ds)) ELSE ds

DecimalParse(cps) ==
    LET signed == cps # <<>> /\ cps[1] \in {43, 45}
        sign == IF signed /\ cps[1] = 45 THEN 1 ELSE 0
        body == IF signed THEN Tail(cps) ELSE cps
        dots == {i \in 1..Len(body) : body[i] = 46}
        dot == IF dots = {} THEN Len(body) + 1 ELSE CHOOSE i \in dots : TRUE
        ip == SubSeq(body, 1, dot - 1)
        fp == SubSeq(body, dot + 1, Len(body))
        all == ip \o fp
        ok == /\ Cardinality(dots) <= 1
              /\ all # <<>>
              /\ \A i \in 1..Len(all) : IsDigit(all[i])
    IN  IF ~ok THEN [err |-> "InvalidOperation", val |-> VNone]
        ELSE [err |-> "",
              val |-> VDec(sign,
                           StripZeroDigits([i \in 1..Len(all) |-> all[i] - 48]),
                           -Len(fp))]

(***************************************************************************)
(* The TLV reader: Draft8Decoder.next_tlv.  A source is a byte string and  *)
(* pos the number of bytes read from it; source.read(n) returns fewer than *)
(* n bytes at the end of the data.                                         *)
(***************************************************************************)
Read(src, pos, n) == SubSeq(src, pos + 1, Min(pos + n, Len(src)))

\* a length of None
NO_LENGTH == -1

VBytes(bs) == [kind |-> "bytes", bytes |-> bs]

Tlv(err, tag, length, value, pos) ==
    [err |-> err, tag |-> tag, length |-> length, value |-> value, pos |-> pos]

TlvError(err, pos) == Tlv(err, 0, NO_LENGTH, VNone, pos)

\* the loop of lines 136-142: where the tag byte is read from
RECURSIVE SkipNoop(_, _)
SkipNoop(src, pos) ==
    IF pos < Len(src) /\ src[pos + 1] = NOOP THEN SkipNoop(src, pos + 1) ELSE pos

TagPosNoSkip(src, pos, allow_noop) == pos
TagPos(src, pos, allow_noop) == IF allow_noop THEN pos ELSE SkipNoop(src, pos)

NumWidth(tag) ==
    CASE tag = INT8 -> 1
      [] tag = INT16 -> 2
      [] tag \in {INT32, FLOAT} -> 4
      [] OTHER -> 8

\* value = ord(self.read(1)); if value > 128: value -= 256
DecodeInt8(b) == IF b > 128 THEN b - 256 ELSE b

ReadNumber(src, tag, p) ==
    LET w == NumWidth(tag)
        raw == Read(src, p, w)
        q == p + Len(raw)
    IN  IF Len(raw) < w
        THEN TlvError(IF tag = INT8 THEN "TypeError" ELSE "struct.error", q)
        ELSE IF tag = INT8
             THEN Tlv("", tag, NO_LENGTH, IntOf(DecodeInt8(raw[1])), q)
        ELSE IF tag \in {FLOAT, DOUBLE}
             THEN Tlv("", tag, NO_LENGTH, VFloat(raw), q)
        ELSE Tlv("", tag, NO_LENGTH, UnpackSigned(raw), q)

\* return tag, length, self.read(length): whatever the source still holds
ReadPayload(src, tag, length, q) ==
    LET data == Read(src, q, length)
    IN  Tlv("", tag, length, VBytes(data), q + Len(data))

ReadShort(src, tag, p) ==
    LET raw == Read(src, p, 1)
        q == p + Len(raw)
    IN  IF raw = <<>> THEN TlvError("TypeError", q)
        ELSE IF tag \in STRINGS
             THEN IF raw[1] < SHORT_LIMIT
                  THEN ReadPayload(src, tag, raw[1], q)
                  ELSE TlvError("AssertionError", q)
        ELSE Tlv("", tag, raw[1], VNone, q)

ReadLarge(src, tag, p) ==
    LET raw == Read(src, p, 4)
        q == p + Len(raw)
    IN  IF Len(raw) < 4 THEN TlvError("struct.error", q)
        ELSE IF tag \in STRINGS THEN ReadPayload(src, tag, UnpackLength(raw), q)
        ELSE Tlv("", tag, UnpackLength(raw), VNone, q)

next_tlv(src, pos, allow_noop) ==
    LET p0 == TagPos(src, pos, allow_noop)
        tag == src[p0 + 1]
        p == p0 + 1
    IN  IF p0 >= Len(src) THEN TlvError("EarlyEndOfStreamError", p0)
        ELSE IF tag \in NUMBERS THEN ReadNumber(src, tag, p)
        ELSE IF tag \in SHORT_OBJ THEN ReadShort(src, tag, p)
        ELSE IF tag \in LARGE_OBJ THEN ReadLarge(src, tag, p)
        ELSE IF tag \in CONSTANTS_ THEN Tlv("", tag, NO_LENGTH, VNone, p)
        ELSE TlvError("MarkerError", p)

(***************************************************************************)
(* The value decoder.  A dispatch table maps a marker to the name of its   *)
(* handler; DecoderDispatch is the table the class body builds (lines      *)
(* 121, 187-260).  A handler returns R(err, val, pos): the exception it    *)
(* raised ("" for none), the value, and the reader's position afterwards.  *)
(***************************************************************************)
DecoderDispatch ==
    [t \in {NOOP, NULL, FALSE_, TRUE_, INT8, INT16, INT32, INT64, FLOAT, DOUBLE,
            STRING_S, STRING_L, HIDEF_S, HIDEF_L, ARRAY_S, ARRAY_L,
            OBJECT_S, OBJECT_L} |->
        CASE t = NOOP -> "decode_noop"
          [] t = NULL -> "decode_none"
          [] t = FALSE_ -> "decode_false"
          [] t = TRUE_ -> "decode_true"
          [] t \in {INT8, INT16, INT32, INT64} -> "decode_int"
          [] t \in {FLOAT, DOUBLE} -> "decode_float"
          [] t \in {STRING_S, STRING_L} -> "decode_string"
          [] t \in {HIDEF_S, HIDEF_L} -> "decode_hidef"
          [] t \in {ARRAY_S, ARRAY_L} -> "decode_array"
          [] OTHER -> "decode_object"]

R(err, val, pos) == [err |-> err, val |-> val, pos |-> pos]

\* value.decode('utf-8')
decode_string(t) ==
    IF t.value.kind # "bytes" THEN R("AttributeError", VNone, t.pos)
    ELSE Bind(Utf8Decode(t.value.bytes), LAMBDA u :
            IF u.err # "" THEN R(u.err, VNone, t.pos)
            ELSE R("", VText(u.cps), t.pos))

\* Decimal(value.decode('utf-8'))
decode_hidef(t) ==
    Bind(decode_string(t), LAMBDA u :
        IF u.err # "" THEN u
        ELSE Bind(DecimalParse(u.val.cps), LAMBDA d :
                IF d.err # "" THEN R(d.err, VNone, t.pos)
                ELSE R("", d.val, t.pos)))

\* One resumption of a generator, S(err, stop, val, key, unit, from, pos):
\* the exception raised, whether it returned (StopIteration), the value
\* yielded, the generator's local `key`, the last unit its loop read and
\* the position that unit was read from, and the reader's position.
S(err, stop, val, key, unit, from, pos) ==
    [err |-> err, stop |-> stop, val |-> val, key |-> key, unit |-> unit,
     from |-> from, pos |-> pos]

RECURSIVE Dispatch(_, _, _, _)
RECURSIVE decode_array(_, _, _, _)
RECURSIVE decode_object(_, _, _, _)
RECURSIVE DecodeArrayItems(_, _, _, _, _, _)
RECURSIVE DecodeObjectItems(_, _, _, _, _, _, _)
RECURSIVE array_stream(_, _, _, _)
RECURSIVE object_stream(_, _, _, _, _)
RECURSIVE ArrayStreamAll(_, _, _, _, _)
RECURSIVE ObjectStreamAll(_, _, _, _, _)
RECURSIVE PyList(_, _, _, _)
RECURSIVE Materialized(_, _, _, _, _)

\* self.dispatch[tag](self, tag, length, value)
Dispatch(d, an, src, t) ==
    IF t.tag \notin DOMAIN d THEN R("KeyError", VNone, t.pos)
    ELSE LET h == d[t.tag]
         IN  CASE h = "decode_noop" -> R("", VNoop, t.pos)
               [] h = "decode_none" -> R("", VNone, t.pos)
               [] h = "decode_false" -> R("", VBool(FALSE), t.pos)
               [] h = "decode_true" -> R("", VBool(TRUE), t.pos)
               [] h \in {"decode_int", "decode_float"} -> R("", t.value, t.pos)
               [] h = "decode_string" -> decode_string(t)
               [] h = "decode_hidef" -> decode_hidef(t)
               [] h = "decode_array" -> decode_array(d, an, src, t)
               [] OTHER -> decode_object(d, an, src, t)

\* list(x), x the value of r
PyList(d, an, src, r) ==
    CASE r.val.kind = "generator" ->
            IF r.val.of = "array_stream"
            THEN ArrayStreamAll(d, an, src, r.pos, <<>>)
            ELSE ObjectStreamAll(d, an, src, r.pos, <<>>)
      [] r.val.kind \in {"list", "tuple"} -> R("", VList(r.val.items), r.pos)
      [] r.val.kind = "dict" -> R("", VList(KeyOrder(DOMAIN r.val.map)), r.pos)
      [] r.val.kind = "unicode" ->
            R("", VList([i \in 1..Len(r.val.cps) |-> VText(<<r.val.cps[i]>>)]),
              r.pos)
      [] OTHER -> R("TypeError", VNone, r.pos)

\* if tag in STREAMS and length == 255: item = list(item)
MaterializedNever(d, an, src, t, item) == item
Materialized(d, an, src, t, item) ==
    IF t.tag \in STREAMS /\ t.length = UNSIZED THEN PyList(d, an, src, item)
    ELSE item

decode_array(d, an, src, t) ==
    IF t.tag = ARRAY_S /\ t.length = UNSIZED
    THEN R("", VGen("array_stream"), t.pos)
    ELSE IF t.length = NO_LENGTH THEN R("TypeError", VNone, t.pos)
    ELSE DecodeArrayItems(d, an, src, t.pos, t.length, <<>>)

\* the loop of decode_array with n rounds to go
DecodeArrayItems(d, an, src, pos, n, res) ==
    IF n = 0 THEN R("", VList(res), pos)
    ELSE Bind(next_tlv(src, pos, an), LAMBDA t :
        IF t.err # "" THEN R(t.err, VNone, t.pos)
        ELSE IF t.tag \in FORBIDDEN THEN R("MarkerError", VNone, t.pos)
        ELSE Bind(Dispatch(d, an, src, t), LAMBDA item :
            IF item.err # "" THEN item
            ELSE Bind(Materialized(d, an, src, t, item), LAMBDA m :
                IF m.err # "" THEN m
                ELSE DecodeArrayItems(d, an, src, m.pos, n - 1,
                                      Append(res, m.val)))))

decode_object(d, an, src, t) ==
    IF t.tag = OBJECT_S /\ t.length = UNSIZED
    THEN R("", VGen("object_stream"), t.pos)
    ELSE IF t.length = NO_LENGTH THEN R("TypeError", VNone, t.pos)
    ELSE DecodeObjectItems(d, an, src, t.pos, t.length * 2, VNone, EmptyMap)

\* the loop of decode_object with n rounds to go
DecodeObjectItems(d, an, src, pos, n, key, res) ==
    IF n = 0 THEN R("", VDict(res), pos)
    ELSE Bind(next_tlv(src, pos, an), LAMBDA t :
        IF t.err # "" THEN R(t.err, VNone, t.pos)
        ELSE IF t.tag \in FORBIDDEN THEN R("MarkerError", VNone, t.pos)
        ELSE IF key = VNone /\ t.tag \notin OBJECT_KEYS
             THEN R("ValueError", VNone, t.pos)
        ELSE Bind(Dispatch(d, an, src, t), LAMBDA value :
            IF value.err # "" THEN value
            ELSE IF key = VNone
                 THEN DecodeObjectItems(d, an, src, value.pos, n - 1,
                                        value.val, res)
            ELSE Bind(Materialized(d, an, src, t, value), LAMBDA m :
                IF m.err # "" THEN m
                ELSE DecodeObjectItems(d, an, src, m.pos, n - 1, VNone,
                                       MapPut(res, key, m.val)))))

\* array_stream() resumed once: up to its next yield, return or exception
array_stream(d, an, src, pos) ==
    Bind(next_tlv(src, pos, an), LAMBDA t :
        IF t.err # "" THEN S(t.err, FALSE, VNone, VNone, t, pos, t.pos)
        ELSE IF t.tag = EOS THEN S("", TRUE, VNone, VNone, t, pos, t.pos)
        ELSE Bind(Dispatch(d, an, src, t), LAMBDA item :
            IF item.err # ""
            THEN S(item.err, FALSE, VNone, VNone, t, pos, item.pos)
            ELSE Bind(Materialized(d, an, src, t, item), LAMBDA m :
                S(m.err, FALSE, m.val, VNone, t, pos, m.pos))))

\* object_stream() resumed once with its local key: up to its next yield,
\* return or exception
object_stream(d, an, src, pos, key) ==
    Bind(next_tlv(src, pos, an), LAMBDA t :
        IF t.err # "" THEN S(t.err, FALSE, VNone, key, t, pos, t.pos)
        ELSE IF t.tag = NOOP /\ key = VNone
             THEN S("", FALSE, VTuple(<<VNoop, VNoop>>), key, t, pos, t.pos)
        ELSE IF t.tag = NOOP /\ Truthy(key)
             THEN object_stream(d, an, src, t.pos, key)
        ELSE IF t.tag = EOS
             THEN IF Truthy(key)
                  THEN S("EarlyEndOfStreamError", FALSE, VNone, key, t, pos, t.pos)
                  ELSE S("", TRUE, VNone, key, t, pos, t.pos)
        ELSE IF key = VNone /\ t.tag \notin OBJECT_KEYS
             THEN S("ValueError", FALSE, VNone, key, t, pos, t.pos)
        ELSE Bind(Dispatch(d, an, src, t), LAMBDA value :
            IF value.err # ""
            THEN S(value.err, FALSE, VNone, key, t, pos, value.pos)
            ELSE IF key = VNone
                 THEN object_stream(d, an, src, value.pos, value.val)
            ELSE IF t.tag \in STREAMS
                 THEN Bind(PyList(d, an, src, value), LAMBDA l :
                         S(l.err, FALSE, VTuple(<<key, l.val>>), key, t, pos, l.pos))
            ELSE S("", FALSE, VTuple(<<key, value.val>>), key, t, pos, value.pos)))

\* list(array_stream()) and list(object_stream())
ArrayStreamAll(d, an, src, pos, acc) ==
    Bind(array_stream(d, an, src, pos), LAMBDA s :
        IF s.err # "" THEN R(s.err, VNone, s.pos)
        ELSE IF s.stop THEN R("", VList(acc), s.pos)
        ELSE ArrayStreamAll(d, an, src, s.pos, Append(acc, s.val)))

ObjectStreamAll(d, an, src, pos, acc) ==
    Bind(object_stream(d, an, src, pos, VNone), LAMBDA s :
        IF s.err # "" THEN R(s.err, VNone, s.pos)
        ELSE IF s.stop THEN R("", VList(acc), s.pos)
        ELSE ObjectStreamAll(d, an, src, s.pos, Append(acc, s.val)))

\* Draft8Decoder.decode_next on a session
decode_next(d, an, src, pos) ==
    Bind(next_tlv(src, pos, an), LAMBDA t :
        IF t.err # "" THEN R(t.err, VNone, t.pos) ELSE Dispatch(d, an, src, t))

(***************************************************************************)
(* The value encoder.  EncoderDispatch is the table the class body builds  *)
(* (lines 308, 328-438), keyed by the type of the value.  A handler        *)
(* returns E(err, out): the exception raised ("" for none) and the bytes.  *)
(***************************************************************************)
EncoderDispatch ==
    [t \in {"NoopType", "NoneType", "BooleanType", "IntType", "LongType",
            "FloatType", "StringType", "UnicodeType", "Decimal", "TupleType",
            "ListType", "set", "frozenset", "dict", "XRangeType",
            "GeneratorType", "dict_keysiterator", "dict_valuesiterator",
            "dict_itemsiterator"} |->
        CASE t = "NoopType" -> "encode_noop"
          [] t = "NoneType" -> "encode_none"
          [] t = "BooleanType" -> "encode_bool"
          [] t \in {"IntType", "LongType"} -> "encode_int"
          [] t = "FloatType" -> "encode_float"
          [] t \in {"StringType", "UnicodeType"} -> "encode_str"
          [] t = "Decimal" -> "encode_decimal"
          [] t \in {"TupleType", "ListType", "set", "frozenset"} -> "encode_sequence"
          [] t = "dict" -> "encode_dict"
          [] t = "dict_itemsiterator" -> "encode_dictitems"
          [] OTHER -> "encode_generator"]

E(err, out) == [err |-> err, out |-> out]

\* -2^(bits-1) <= n <= 2^(bits-1) - 1
InSigned(n, bits) ==
    /\ IntLE(VInt(TRUE, MagPow2(bits - 1)), n)
    /\ IntLE(n, VInt(FALSE, MagPow2Less1(bits - 1)))

\* type(obj): an int beyond the machine word is a long
TypeOf(v) ==
    CASE v.kind = "none" -> "NoneType"
      [] v.kind = "NoopType" -> "NoopType"
      [] v.kind = "bool" -> "BooleanType"
      [] v.kind = "int" -> IF InSigned(v, 64) THEN "IntType" ELSE "LongType"
      [] v.kind = "float" -> "FloatType"
      [] v.kind = "unicode" -> "UnicodeType"
      [] v.kind = "str" -> "StringType"
      [] v.kind = "Decimal" -> "Decimal"
      [] v.kind = "list" -> "ListType"
      [] v.kind = "tuple" -> "TupleType"
      [] v.kind = "dict" -> "dict"
      [] v.kind = "iterator" -> "GeneratorType"
      [] v.kind = "dictitems" -> "dict_itemsiterator"
      [] OTHER -> v.kind

encode_decimal(d) ==
    LET text == DecimalStr(d)
        length == Len(text)
    IN  IF length < SHORT_LIMIT THEN E("", <<HIDEF_S, length>> \o text)
        ELSE E("", <<HIDEF_L>> \o PackLength(length) \o text)

\* encode_int with each upper bound written 2 ** k instead of 2 ** k - 1
InSignedInclusive(n, bits) ==
    /\ IntLE(VInt(TRUE, MagPow2(bits - 1)), n)
    /\ IntLE(n, VInt(FALSE, MagPow2(bits - 1)))

encode_int_inclusive(n) ==
    IF InSignedInclusive(n, 8) THEN E("", <<INT8, SmallOf(n) % 256>>)
    ELSE IF InSignedInclusive(n, 16) THEN E("", <<INT16>> \o PackSigned(2, n))
    ELSE IF InSignedInclusive(n, 32) THEN E("", <<INT32>> \o PackSigned(4, n))
    ELSE IF InSignedInclusive(n, 64) THEN E("", <<INT64>> \o PackSigned(8, n))
    ELSE encode_decimal(DecimalOfInt(n))

encode_int(n) ==
    IF InSigned(n, 8) THEN E("", <<INT8, SmallOf(n) % 256>>)
    ELSE IF InSigned(n, 16) THEN E("", <<INT16>> \o PackSigned(2, n))
    ELSE IF InSigned(n, 32) THEN E("", <<INT32>> \o PackSigned(4, n))
    ELSE IF InSigned(n, 64) THEN E("", <<INT64>> \o PackSigned(8, n))
    ELSE encode_decimal(DecimalOfInt(n))

encode_str(obj) ==
    LET bs == IF obj.kind = "unicode" THEN Utf8Encode(obj.cps) ELSE obj.bytes
        length == Len(bs)
    IN  IF length < SHORT_LIMIT THEN E("", <<STRING_S, length>> \o bs)
        ELSE E("", <<STRING_L, INT32>> \o PackLength(length) \o bs)

\* marker + size of encode_sequence and encode_dict
SizedHeader(short, large, length) ==
    IF length < SHORT_LIMIT THEN <<short, length>>
    ELSE <<large>> \o PackLength(length)

\* the items of a dict in the order obj.items() gives them, key then value
DictItems(m) ==
    LET ks == KeyOrder(DOMAIN m)
    IN  Flatten([i \in 1..Len(ks) |-> <<ks[i], m[ks[i]]>>])

RECURSIVE encode_next(_, _)
RECURSIVE EncodeEach(_, _)
RECURSIVE EncodePairs(_, _)

\* bytes().join of encode_next(item) for every item, in order
EncodeEach(ed, items) ==
    IF items = <<>> THEN E("", <<>>)
    ELSE Bind(encode_next(ed, Head(items)), LAMBDA h :
            IF h.err # "" THEN h
            ELSE Bind(EncodeEach(ed, Tail(items)), LAMBDA r :
                    IF r.err # "" THEN r ELSE E("", h.out \o r.out)))

\* the loop of encode_dictitems
EncodePairs(ed, pairs) ==
    IF pairs = <<>> THEN E("", <<>>)
    ELSE IF Head(pairs).items[1].kind \notin {"str", "unicode"}
         THEN E("EncodeError", <<>>)
    ELSE Bind(EncodeEach(ed, Head(pairs).items), LAMBDA h :
            IF h.err # "" THEN h
            ELSE Bind(EncodePairs(ed, Tail(pairs)), LAMBDA r :
                    IF r.err # "" THEN r ELSE E("", h.out \o r.out)))

Framed(head, body, tail) ==
    Bind(body, LAMBDA b : IF b.err # "" THEN b ELSE E("", head \o b.out \o tail))

\* Draft8Encoder.encode_next with the session's default (which raises)
encode_next(ed, obj) ==
    IF TypeOf(obj) \notin DOMAIN ed THEN E("EncodeError", <<>>)
    ELSE LET h == ed[TypeOf(obj)]
         IN  CASE h = "encode_noop" -> E("", <<NOOP>>)
               [] h = "encode_none" -> E("", <<NULL>>)
               [] h = "encode_bool" -> E("", <<IF Truthy(obj) THEN TRUE_ ELSE FALSE_>>)
               [] h = "encode_int" -> encode_int(obj)
               [] h = "encode_str" -> encode_str(obj)
               [] h = "encode_decimal" -> encode_decimal(obj)
               [] h = "encode_sequence" ->
                    Framed(SizedHeader(ARRAY_S, ARRAY_L, Len(obj.items)),
                           EncodeEach(ed, obj.items), <<>>)
               [] h = "encode_dict" ->
                    Framed(SizedHeader(OBJECT_S, OBJECT_L, Cardinality(DOMAIN obj.map)),
                           EncodeEach(ed, DictItems(obj.map)), <<>>)
               [] h = "encode_generator" ->
                    Framed(<<ARRAY_S, UNSIZED>>, EncodeEach(ed, obj.items), <<EOS>>)
               [] h = "encode_dictitems" ->
                    Framed(<<OBJECT_S, UNSIZED>>, EncodePairs(ed, obj.items), <<EOS>>)
               [] OTHER -> E("Unmodelled", <<>>)

(***************************************************************************)
(* State.                                                                  *)
(*   decoder_dispatch, encoder_dispatch: the class attributes              *)
(*       Draft8Decoder.dispatch and Draft8Encoder.dispatch, the shared     *)
(*       default tables.                                                   *)
(*   dec: one decoder session: its source and reader position, allow_noop, *)
(*       its own dispatch table, what its last decode_next returned or     *)
(*       raised, and the generator that call returned, if any: which one   *)
(*       (gen), whether it is suspended, stopped or raised, what it has    *)
(*       yielded, its local key, and the last unit read (unit) with the    *)
(*       position it was read from (from).                                 *)
(*   enc: one encoder session: the last value it was given and the bytes   *)
(*       or the exception it answered with.                                *)
(***************************************************************************)
VARIABLES decoder_dispatch, encoder_dispatch, dec, enc

vars == <<decoder_dispatch, encoder_dispatch, dec, enc>>

NoUnit == TlvError("", 0)

NoDecoder ==
    [live |-> FALSE, src |-> <<>>, pos |-> 0, allow_noop |-> FALSE,
     dispatch |-> DecoderDispatch, called |-> FALSE, result |-> VNone,
     error |-> "", gen |-> "", gen_state |-> "", yielded |-> <<>>,
     key |-> VNone, unit |-> NoUnit, from |-> 0]

NoEncoder ==
    [live |-> FALSE, called |-> FALSE, obj |-> VNone, out |-> <<>>, error |-> ""]

\* Draft8Decoder.__init__: self.dispatch = self.dispatch.copy()
DecoderInit(src, allow_noop) ==
    [NoDecoder EXCEPT !.live = TRUE, !.src = src, !.allow_noop = allow_noop,
                      !.dispatch = decoder_dispatch]

\* self.dispatch as a decoder session and as an encoder session read it:
\* Draft8Encoder.__init__ sets no attribute of that name, so the lookup
\* ends at the class attribute
SessionDecoderDispatch == dec.dispatch
SessionEncoderDispatch == encoder_dispatch

\* decode_next called on the session (by next() or by the facade)
DecodeNext ==
    /\ dec.live /\ dec.error = "" /\ dec.gen_state # "suspended"
    /\ \E t \in {next_tlv(dec.src, dec.pos, dec.allow_noop)},
          r \in {decode_next(SessionDecoderDispatch, dec.allow_noop, dec.src, dec.pos)} :
       LET lazy == r.err = "" /\ r.val.kind = "generator"
       IN  dec' = [dec EXCEPT !.called = TRUE, !.pos = r.pos, !.result = r.val,
                              !.error = r.err, !.unit = t, !.from = dec.pos,
                              !.gen = IF lazy THEN r.val.of ELSE "",
                              !.gen_state = IF lazy THEN "suspended" ELSE "",
                              !.yielded = <<>>, !.key = VNone]
    /\ UNCHANGED <<decoder_dispatch, encoder_dispatch, enc>>

\* the caller takes the next element of the generator decode_next returned
StreamNext ==
    /\ dec.live /\ dec.gen_state = "suspended"
    /\ \E s \in {IF dec.gen = "array_stream"
                 THEN array_stream(SessionDecoderDispatch, dec.allow_noop,
                                   dec.src, dec.pos)
                 ELSE object_stream(SessionDecoderDispatch, dec.allow_noop,
                                    dec.src, dec.pos, VNone)} :
           dec' = [dec EXCEPT !.pos = s.pos, !.error = s.err, !.key = s.key,
                              !.unit = s.unit, !.from = s.from,
                              !.gen_state = IF s.err # "" THEN "raised"
                                            ELSE IF s.stop THEN "stopped"
                                            ELSE "suspended",
                              !.yielded = IF s.err = "" /\ ~s.stop
                                          THEN Append(@, s.val) ELSE @]
    /\ UNCHANGED <<decoder_dispatch, encoder_dispatch, enc>>

\* Draft8Encoder.__init__
NewEncoder ==
    /\ enc' = [NoEncoder EXCEPT !.live = TRUE]
    /\ UNCHANGED <<decoder_dispatch, encoder_dispatch, dec>>

\* encode_next called on the session with obj
EncodeValue(obj) ==
    /\ enc.live
    /\ \E e \in {encode_next(SessionEncoderDispatch, obj)} :
           enc' = [enc EXCEPT !.called = TRUE, !.obj = obj, !.out = e.out,
                              !.error = e.err]
    /\ UNCHANGED <<decoder_dispatch, encoder_dispatch, dec>>

(***************************************************************************)
(* Inputs.                                                                 *)
(***************************************************************************)
\* bounds of the model
MaxSrcLen == 3
MaxNoopRun == 2
MaxInner == 2
SmallIntBound == 130
MaxShortText == 2
LongTextSpread == 1

SeqsUpTo(A, n) == UNION {[1..k -> A] : k \in 0..n}

Prefixes(bs) == {SubSeq(bs, 1, k) : k \in 0..Len(bs)}

\* every byte string up to MaxSrcLen over the markers and length bytes that
\* make units, containers, streams and their truncations
SourceAlphabet ==
    {NOOP, EOS, NULL, INT8, STRING_S, ARRAY_S, OBJECT_S, 0, 1, 255}

ShortSources == SeqsUpTo(SourceAlphabet, MaxSrcLen)

\* documents of every marker, whole and cut short at every byte, each after
\* a run of Noop bytes
Documents ==
    { <<ARRAY_S, 255, INT8, 1, INT8, 2, EOS>>,
      <<OBJECT_S, 255, EOS>>,
      <<OBJECT_S, 255, STRING_S, 1, 107, EOS>>,
      <<OBJECT_S, 255, STRING_S, 0, EOS>>,
      <<OBJECT_S, 255, STRING_S, 0, INT8, 1, EOS>>,
      <<OBJECT_S, 255, STRING_L, 0, 0, 0, 0, EOS>>,
      <<OBJECT_S, 1, INT8, 1, NULL>>,
      <<OBJECT_S, 2, STRING_S, 1, 107, NULL, STRING_S, 1, 107, TRUE_>>,
      <<ARRAY_S, 1, ARRAY_S, 255, INT8, 1, EOS>>,
      <<ARRAY_S, 2, ARRAY_S, 255, INT8, 1, INT8, 2, EOS, NULL>>,
      <<ARRAY_S, 2, OBJECT_S, 255, STRING_S, 1, 107, FALSE_, EOS, NULL>>,
      <<ARRAY_L, 0, 0, 0, 2, NULL, TRUE_>>,
      <<OBJECT_L, 0, 0, 0, 1, STRING_S, 1, 107, ARRAY_S, 255, NULL, EOS>>,
      <<OBJECT_S, 1, STRING_S, 1, 107, OBJECT_S, 255, STRING_S, 1, 97, NULL, EOS>>,
      <<ARRAY_S, 255, OBJECT_S, 255, STRING_S, 1, 107, NULL, EOS, EOS>>,
      <<ARRAY_S, 255, ARRAY_S, 1, NULL, OBJECT_S, 0, EOS>>,
      <<OBJECT_S, 255, STRING_S, 1, 107, OBJECT_S, 1, STRING_S, 1, 97, INT8, 1, EOS>>,
      <<OBJECT_S, 255, STRING_S, 1, 107, OBJECT_S, 0, EOS>>,
      <<OBJECT_S, 255, STRING_S, 1, 107, ARRAY_S, 1, INT8, 1, EOS>>,
      <<OBJECT_S, 255, STRING_S, 1, 107, ARRAY_S, 255, INT8, 1, EOS, EOS>>,
      <<OBJECT_S, 255, STRING_S, 1, 107, OBJECT_S, 255, STRING_S, 1, 97, NULL, EOS, EOS>>,
      <<OBJECT_S, 255, STRING_S, 1, 107, OBJECT_L, 0, 0, 0, 1, STRING_S, 1, 97, INT8, 1, EOS>>,
      <<OBJECT_S, 255, NOOP, STRING_S, 1, 107, NOOP, NULL, NOOP, EOS>>,
      <<OBJECT_S, 255, INT8, 1, NULL, EOS>>,
      <<STRING_S, 5, 104, 101, 108, 108, 111>>,
      <<STRING_S, 2, 195, 169>>,
      <<STRING_L, 0, 0, 0, 2, 104, 105>>,
      <<HIDEF_S, 4, 45, 49, 46, 53>>,
      <<HIDEF_L, 0, 0, 0, 1, 55>>,
      <<INT16, 255, 127>>,
      <<INT32, 0, 1, 0, 0>>,
      <<INT64, 128, 0, 0, 0, 0, 0, 0, 0>>,
      <<FLOAT, 63, 128, 0, 0>>,
      <<DOUBLE, 63, 240, 0, 0, 0, 0, 0, 0>>,
      <<NULL, TRUE_, FALSE_>>,
      <<0>> }

DocumentSources ==
    {Rep(k, NOOP) \o p : k \in 0..MaxNoopRun, p \in UNION {Prefixes(d) : d \in Documents}}

Int8Sources == {<<INT8, b>> : b \in 0..255}

\* values with lazy sequences in them, which the encoder writes as unsized
\* containers
StreamLeaves == {VNone, IntOf(1), VText(<<107>>)}

StreamInner ==
    {VIter(s) : s \in SeqsUpTo(StreamLeaves, MaxInner)}
    \cup {VItems(<<>>)}
    \cup {VItems(<<VTuple(<<VText(<<97>>), x>>)>>) : x \in StreamLeaves}

StreamParts == StreamLeaves \cup StreamInner

StreamValues ==
    {VList(s) : s \in SeqsUpTo(StreamParts, 2)}
    \cup {VIter(s) : s \in SeqsUpTo(StreamParts, 2)}
    \cup {VDict(VText(<<107>>) :> x) : x \in StreamParts}
    \cup {VItems(<<VTuple(<<VText(<<107>>), x>>)>>) : x \in StreamParts}
    \cup {VList(<<VIter(<<x>>)>>) : x \in StreamInner}
    \cup {VIter(<<VIter(<<x>>)>>) : x \in StreamInner}

StreamSources == {encode_next(EncoderDispatch, v).out : v \in StreamValues}

Sources == ShortSources \cup DocumentSources \cup Int8Sources \cup StreamSources

\* the values the encoder is given
IntValues ==
    {IntOf(i) : i \in (-SmallIntBound)..SmallIntBound}
    \cup UNION {{VInt(FALSE, MagPow2Less1(k)), VInt(FALSE, MagPow2(k)),
                 VInt(TRUE, MagPow2(k)), VInt(TRUE, Strip(MagInc(MagPow2(k)))),
                 VInt(FALSE, Strip(MagDec(MagPow2Less1(k)))),
                 VInt(TRUE, MagPow2Less1(k))} : k \in {15, 31, 63}}
    \cup {VInt(FALSE, MagPow2(64)), VInt(TRUE, MagPow2(71))}

TextValues ==
    {VText(s) : s \in SeqsUpTo({97, 233}, MaxShortText)}
    \cup {VText(Rep(n, 97)) :
            n \in (SHORT_LIMIT - 1 - LongTextSpread)..(SHORT_LIMIT + LongTextSpread)}
    \cup {VText(Rep(n, 233)) : n \in 126..128}
    \cup {VText(<<97>> \o Rep(127, 233)), VStr(<<107>>), VStr(Rep(SHORT_LIMIT, 97))}

DecimalValues ==
    {VDec(0, <<1, 5>>, -1), VDec(1, <<2, 5>>, -2), VDec(0, <<0>>, 0),
     VDec(0, <<5>>, -3), VDec(1, <<1, 2, 3>>, 0)}

Scalars ==
    {VNone, VBool(TRUE), VBool(FALSE)} \cup IntValues \cup TextValues
    \cup DecimalValues

Elements ==
    {VNone, VBool(TRUE), IntOf(5), IntOf(-128), IntOf(300), VText(<<>>),
     VText(<<107>>), VDec(0, <<1, 5>>, -1), VList(<<>>), VList(<<IntOf(1)>>),
     VDict(EmptyMap), VDict(VText(<<97>>) :> IntOf(1))}

Keys == {VText(<<>>), VText(<<107>>), VText(<<233>>)}

Collections ==
    {VList(s) : s \in SeqsUpTo(Elements, 2)}
    \cup {VTuple(<<IntOf(1), VNone>>)}
    \cup {VDict(k :> x) : k \in Keys, x \in Elements}
    \cup {VDict(VText(<<>>) :> x @@ VText(<<107>>) :> y) : x, y \in {VNone, IntOf(5)}}

Unsupported == [kind |-> "object"]

Values ==
    Scalars \cup Collections
    \cup {VNoop, Unsupported, VIter(<<IntOf(1), VNone>>),
          VItems(<<VTuple(<<VText(<<107>>), VNone>>)>>),
          VItems(<<VTuple(<<IntOf(1), VNone>>)>>)}

(***************************************************************************)
(* Spec: one decoder session on a source.                                  *)
(***************************************************************************)
Init ==
    /\ decoder_dispatch = DecoderDispatch
    /\ encoder_dispatch = EncoderDispatch
    /\ dec = NoDecoder
    /\ enc = NoEncoder

NewDecoder ==
    /\ ~dec.live
    /\ \E src \in Sources, allow_noop \in BOOLEAN :
          dec' = DecoderInit(src, allow_noop)
    /\ UNCHANGED <<decoder_dispatch, encoder_dispatch, enc>>

Next == NewDecoder \/ DecodeNext \/ StreamNext

Spec == Init /\ [][Next]_vars

(***************************************************************************)
(* SpecEnc: one encoder session, and a decoder session on what it wrote.   *)
(***************************************************************************)
NewEncoderOnce == ~enc.live /\ NewEncoder

EncodeOnce == ~enc.called /\ \E obj \in Values : EncodeValue(obj)

DecodeOutput ==
    /\ enc.called /\ enc.error = "" /\ ~dec.live
    /\ \E allow_noop \in BOOLEAN : dec' = DecoderInit(enc.out, allow_noop)
    /\ UNCHANGED <<decoder_dispatch, encoder_dispatch, enc>>

NextEnc == NewEncoderOnce \/ EncodeOnce \/ DecodeOutput \/ DecodeNext \/ StreamNext

SpecEnc == Init /\ [][NextEnc]_vars

(***************************************************************************)
(* SpecTables: sessions constructed, used and constructed again while the  *)
(* class tables Draft8Decoder.dispatch and Draft8Encoder.dispatch are      *)
(* changed from outside.                                                   *)
(***************************************************************************)
TableTags == {NULL, EOS}
TableDecoders == {"decode_none", "decode_true"}
TableTypes == {"NoneType", "object"}
TableEncoders == {"encode_none", "encode_bool"}

TableSources ==
    {<<NULL>>, <<EOS>>, <<TRUE_>>, <<ARRAY_S, 1, NULL>>, <<ARRAY_S, 255, NULL, EOS>>}

TableValues == {VNone, VBool(TRUE), Unsupported, VList(<<VNone>>)}

\* Draft8Decoder.dispatch[tag] = handler
SetDecoderEntry ==
    /\ \E t \in TableTags, h \in TableDecoders :
          /\ (t \in DOMAIN decoder_dispatch => decoder_dispatch[t] # h)
          /\ decoder_dispatch' = (t :> h) @@ decoder_dispatch
    /\ UNCHANGED <<encoder_dispatch, dec, enc>>

\* del Draft8Decoder.dispatch[tag]
DelDecoderEntry ==
    /\ \E t \in TableTags \cap DOMAIN decoder_dispatch :
          decoder_dispatch' =
              [u \in DOMAIN decoder_dispatch \ {t} |-> decoder_dispatch[u]]
    /\ UNCHANGED <<encoder_dispatch, dec, enc>>

\* Draft8Encoder.dispatch[type] = handler
SetEncoderEntry ==
    /\ \E t \in TableTypes, h \in TableEncoders :
          /\ (t \in DOMAIN encoder_dispatch => encoder_dispatch[t] # h)
          /\ encoder_dispatch' = (t :> h) @@ encoder_dispatch
    /\ UNCHANGED <<decoder_dispatch, dec, enc>>

\* del Draft8Encoder.dispatch[type]
DelEncoderEntry ==
    /\ \E t \in TableTypes \cap DOMAIN encoder_dispatch :
          encoder_dispatch' =
              [u \in DOMAIN encoder_dispatch \ {t} |-> encoder_dispatch[u]]
    /\ UNCHANGED <<decoder_dispatch, dec, enc>>

NewTableDecoder ==
    /\ \E src \in TableSources : dec' = DecoderInit(src, FALSE)
    /\ UNCHANGED <<decoder_dispatch, encoder_dispatch, enc>>

EncodeTableValue == \E obj \in TableValues : EncodeValue(obj)

NextTables ==
    \/ SetDecoderEntry \/ DelDecoderEntry \/ SetEncoderEntry \/ DelEncoderEntry
    \/ NewTableDecoder \/ DecodeNext \/ StreamNext
    \/ NewEncoder \/ EncodeTableValue

SpecTables == Init /\ [][NextTables]_vars

(***************************************************************************)
(* Properties of the reader and the decoder, checked under Spec.           *)
(***************************************************************************)
\* decode_next has just returned or raised, and no generator has run since
JustDecoded ==
    dec.called /\ dec.gen_state \in {"", "suspended"} /\ dec.yielded = <<>>

\* the number of Noop bytes in a row that follow position from
NoopRun(src, from) ==
    CHOOSE k \in 0..(Len(src) - from) :
        /\ \A i \in 1..k : src[from + i] = NOOP
        /\ (from + k = Len(src) \/ src[from + k + 1] # NOOP)

\* C6: with allow_noop false the reader never returns a Noop unit; a run of
\* Noop bytes followed by a tag X is read as the unit of X, the run
\* consumed (followed by Null, decode_next returns None right after the
\* Null byte); a run followed by the end of the source raises
\* EarlyEndOfStreamError.
NoopSkipping ==
    (dec.called /\ ~dec.allow_noop) =>
        LET at == dec.from + NoopRun(dec.src, dec.from)
        IN  /\ dec.unit.err = "" => dec.unit.tag # NOOP
            /\ IF at = Len(dec.src)
               THEN dec.unit.err = "EarlyEndOfStreamError" /\ dec.unit.pos = at
               ELSE dec.unit = next_tlv(dec.src, at, TRUE)
            /\ (JustDecoded /\ at < Len(dec.src) /\ dec.src[at + 1] = NULL) =>
                  dec.error = "" /\ dec.result = VNone /\ dec.pos = at + 1

NoopSkippingWitness ==
    /\ JustDecoded /\ ~dec.allow_noop /\ dec.from = 0
    /\ dec.src = <<NOOP, NOOP, NULL>>
    /\ dec.result = VNone /\ dec.error = "" /\ dec.pos = 3

\* a generator somewhere in a value
RECURSIVE HasLazy(_)
HasLazy(v) ==
    CASE v.kind = "generator" -> TRUE
      [] v.kind \in {"list", "tuple"} -> \E i \in 1..Len(v.items) : HasLazy(v.items[i])
      [] v.kind = "dict" -> \E k \in DOMAIN v.map : HasLazy(k) \/ HasLazy(v.map[k])
      [] OTHER -> FALSE

\* a value with every lazy sequence in it replaced by the list of what it
\* yields
RECURSIVE Listed(_)
Listed(v) ==
    CASE v.kind \in {"iterator", "dictitems", "list"} ->
            VList([i \in 1..Len(v.items) |-> Listed(v.items[i])])
      [] v.kind = "tuple" -> VTuple([i \in 1..Len(v.items) |-> Listed(v.items[i])])
      [] v.kind = "dict" -> VDict([k \in DOMAIN v.map |-> Listed(v.map[k])])
      [] OTHER -> v

StreamTable ==
    {[src |-> encode_next(EncoderDispatch, v).out, want |-> Listed(v),
      lazy |-> v.kind \in {"iterator", "dictitems"}] : v \in StreamValues}

IsPrefix(a, b) == Len(a) <= Len(b) /\ a = SubSeq(b, 1, Len(a))

\* C5: a value decoded from an unsized Array/Object tag inside a container
\* (sized Array, sized Object, array stream, object stream) is stored as the
\* list of its elements, read up to its EOS before the next sibling is read;
\* a generator is only ever the result of the top-level decode_next.  So no
\* decoded container and no yielded element holds a generator, and a
\* document with unsized containers nested in it decodes, element after
\* element and to its last byte, to the value with every lazy sequence
\* listed.
NestedStreamsMaterialized ==
    /\ dec.called /\ dec.result.kind # "generator" => ~HasLazy(dec.result)
    /\ \A i \in 1..Len(dec.yielded) : ~HasLazy(dec.yielded[i])
    /\ \A p \in StreamTable :
          (dec.called /\ dec.src = p.src) =>
             /\ (JustDecoded /\ dec.from = 0) =>
                   /\ dec.error = ""
                   /\ IF p.lazy THEN dec.result.kind = "generator"
                      ELSE dec.result = p.want /\ dec.pos = Len(dec.src)
             /\ dec.gen # "" =>
                   /\ dec.gen_state # "raised"
                   /\ IsPrefix(dec.yielded, p.want.items)
                   /\ dec.gen_state = "stopped" =>
                         dec.yielded = p.want.items /\ dec.pos = Len(dec.src)

NestedStreamsWitness ==
    /\ JustDecoded /\ dec.from = 0
    /\ dec.src = <<ARRAY_S, 2, ARRAY_S, 255, INT8, 1, INT8, 2, EOS, NULL>>
    /\ dec.result = VList(<<VList(<<IntOf(1), IntOf(2)>>), VNone>>)
    /\ dec.pos = 10

\* C4: in an object stream, an EOS unit read while the local key is empty
\* ends the sequence normally, and an EOS unit read while it holds a key
\* (any text, the empty text too) raises EarlyEndOfStreamError.
ObjectStreamTermination ==
    (/\ dec.gen = "object_stream" /\ dec.gen_state \in {"stopped", "raised"}
     /\ dec.unit.err = "" /\ dec.unit.tag = EOS) =>
        IF dec.key = VNone THEN dec.gen_state = "stopped"
        ELSE dec.gen_state = "raised" /\ dec.error = "EarlyEndOfStreamError"

\* C7: the reader raises EarlyEndOfStreamError wherever the source ends
\* while it still needs bytes (tag, numeric payload, length field, payload
\* of a text or decimal), and never returns a text unit whose payload is
\* shorter than its declared length.
TruncatedInputRaises ==
    dec.called =>
        /\ (dec.unit.err = "" /\ dec.unit.tag \in STRINGS) =>
              Len(dec.unit.value.bytes) = dec.unit.length
        /\ (dec.unit.err \notin {"", "MarkerError", "AssertionError"}) =>
              dec.unit.err = "EarlyEndOfStreamError"

\* C9: the payload byte b of an Int8 unit is read as b when b <= 127 and as
\* b - 256 when b >= 128.
Int8TwosComplement ==
    (dec.called /\ dec.unit.err = "" /\ dec.unit.tag = INT8) =>
        LET b == dec.src[dec.unit.pos]
        IN  dec.unit.value = IntOf(IF b >= 128 THEN b - 256 ELSE b)

\* C10: a pair an object stream yields is (key, value) with value what the
\* top-level decode of the same bytes returns, listed when it comes from an
\* unsized tag and unchanged otherwise (a sized Object stays a dict).
ObjectStreamPairValues ==
    (/\ dec.gen = "object_stream" /\ dec.gen_state = "suspended"
     /\ dec.yielded # <<>> /\ dec.key # VNone) =>
        LET r == decode_next(dec.dispatch, dec.allow_noop, dec.src, dec.from)
            want == IF dec.unit.tag \in STREAMS /\ dec.unit.length = UNSIZED
                    THEN PyList(dec.dispatch, dec.allow_noop, dec.src, r).val
                    ELSE r.val
        IN  dec.yielded[Len(dec.yielded)] = VTuple(<<dec.key, want>>)

(***************************************************************************)
(* Properties of the encoder, checked under SpecEnc.                       *)
(***************************************************************************)
\* n lies in the signed range of that many bits, by magnitude
FitsSigned(n, bits) ==
    IF n.neg THEN ~MagLess(MagPow2(bits - 1), n.mag)
    ELSE MagLess(n.mag, MagPow2(bits - 1))

\* a + b + c on byte strings of one length, one byte longer
RECURSIVE AddBytes(_, _, _)
AddBytes(a, b, c) ==
    IF a = <<>> THEN <<c>>
    ELSE LET t == a[Len(a)] + b[Len(b)] + c
         IN  Append(AddBytes(Front(a), Front(b), t \div 256), t % 256)

\* payload is n in two's complement, big-endian, on Len(payload) bytes:
\* n itself when n >= 0, and 2^(8 * Len(payload)) - |n| when n < 0
IsTwosComplement(payload, n) ==
    IF ~n.neg THEN payload[1] < 128 /\ Strip(payload) = n.mag
    ELSE /\ payload[1] >= 128
         /\ AddBytes(payload, PadLeft(n.mag, Len(payload)), 0)
               = <<1>> \o Rep(Len(payload), 0)

\* m * 10 + c on a magnitude
RECURSIVE MulTenAdd(_, _)
MulTenAdd(m, c) ==
    IF m = <<>> THEN (IF c = 0 THEN <<>> ELSE <<c>>)
    ELSE LET t == m[Len(m)] * 10 + c
         IN  Append(MulTenAdd(Front(m), t \div 256), t % 256)

RECURSIVE MagOfDigits(_)
MagOfDigits(ds) ==
    IF ds = <<>> THEN <<>>
    ELSE MulTenAdd(MagOfDigits(Front(ds)), ds[Len(ds)] - 48)

\* out is the short decimal (hidef) unit whose text is n in decimal
IsHidefOf(out, n) ==
    LET text == SubSeq(out, 3, Len(out))
        digits == IF n.neg THEN Tail(text) ELSE text
    IN  /\ out[1] = HIDEF_S /\ out[2] = Len(text)
        /\ n.neg => text[1] = 45
        /\ digits # <<>> /\ digits[1] # 48
        /\ \A i \in 1..Len(digits) : IsDigit(digits[i])
        /\ MagOfDigits(digits) = n.mag

FixedWidth(tag) ==
    CASE tag = INT8 -> 1 [] tag = INT16 -> 2 [] tag = INT32 -> 4 [] OTHER -> 8

\* C2: encode_int writes the Int8 tag iff -2^7 <= n <= 2^7 - 1, else Int16
\* iff n is in the signed 16-bit range, else Int32 iff in the 32-bit range,
\* else Int64 iff in the 64-bit range, and the decimal (hidef) unit for
\* every other n; the payload is n in big-endian two's complement of the
\* chosen width (127 -> B 7F, 128 -> i 00 80, -129 -> i FF 7F,
\* 2^31 -> L 00 00 00 00 80 00 00 00).
IntWidthMinimal ==
    (enc.called /\ enc.obj.kind = "int") =>
        LET n == enc.obj
            out == enc.out
            tag == out[1]
        IN  /\ enc.error = ""
            /\ tag = INT8 <=> FitsSigned(n, 8)
            /\ tag = INT16 <=> ~FitsSigned(n, 8) /\ FitsSigned(n, 16)
            /\ tag = INT32 <=> ~FitsSigned(n, 16) /\ FitsSigned(n, 32)
            /\ tag = INT64 <=> ~FitsSigned(n, 32) /\ FitsSigned(n, 64)
            /\ FitsSigned(n, 64) =>
                  /\ Len(out) = 1 + FixedWidth(tag)
                  /\ IsTwosComplement(Tail(out), n)
            /\ ~FitsSigned(n, 64) => IsHidefOf(out, n)
            /\ n = IntOf(127) => out = <<INT8, 127>>
            /\ n = IntOf(128) => out = <<INT16, 0, 128>>
            /\ n = IntOf(-129) => out = <<INT16, 255, 127>>
            /\ n = VInt(FALSE, <<128, 0, 0, 0>>) =>
                  out = <<INT64, 0, 0, 0, 0, 128, 0, 0, 0>>

IntWidthWitness ==
    /\ enc.called /\ enc.error = ""
    /\ enc.obj = VInt(FALSE, <<128, 0, 0, 0>>)
    /\ enc.out = <<INT64, 0, 0, 0, 0, 128, 0, 0, 0>>

\* the UTF-8 bytes of a text
TextBytes(v) == IF v.kind = "str" THEN v.bytes ELSE Utf8Encode(v.cps)

BigEndian4(n) ==
    <<n \div 16777216, (n \div 65536) % 256, (n \div 256) % 256, n % 256>>

\* C3: a text of n UTF-8 bytes is written as 's', the byte n and the n
\* bytes when n <= 254, and as 'S', the 4-byte big-endian n and the n bytes
\* when n >= 255, with nothing between the tag and the length, which the
\* reader reads back as that text unit; 's' never comes with length 255.
TextLengthPrefix ==
    (enc.called /\ enc.obj.kind \in {"unicode", "str"}) =>
        LET bs == TextBytes(enc.obj)
            n == Len(bs)
        IN  /\ enc.error = ""
            /\ ~(enc.out[1] = STRING_S /\ enc.out[2] = 255)
            /\ n <= 254 => enc.out = <<STRING_S, n>> \o bs
            /\ n >= 255 =>
                  /\ enc.out = <<STRING_L>> \o BigEndian4(n) \o bs
                  /\ next_tlv(enc.out, 0, FALSE)
                        = Tlv("", STRING_L, n, VBytes(bs), Len(enc.out))

\* what the claims call a value of a non-streaming rule
RECURSIVE NonStreaming(_)
NonStreaming(v) ==
    CASE v.kind \in {"none", "bool", "int", "unicode", "str", "Decimal"} -> TRUE
      [] v.kind \in {"list", "tuple"} ->
            \A i \in 1..Len(v.items) : NonStreaming(v.items[i])
      [] v.kind = "dict" ->
            \A k \in DOMAIN v.map :
                k.kind \in {"unicode", "str"} /\ NonStreaming(v.map[k])
      [] OTHER -> FALSE

\* equal as values: an integer and a decimal by their number, texts by
\* their characters, collections element by element, mappings key by key
RECURSIVE SameValue(_, _)
SameValue(a, b) ==
    CASE a.kind \in {"int", "Decimal"} /\ b.kind \in {"int", "Decimal"} ->
            (IF a.kind = "int" THEN DecimalOfInt(a) ELSE a)
               = (IF b.kind = "int" THEN DecimalOfInt(b) ELSE b)
      [] a.kind \in {"unicode", "str"} /\ b.kind \in {"unicode", "str"} ->
            TextBytes(a) = TextBytes(b)
      [] a.kind \in {"list", "tuple"} /\ b.kind \in {"list", "tuple"} ->
            /\ Len(a.items) = Len(b.items)
            /\ \A i \in 1..Len(a.items) : SameValue(a.items[i], b.items[i])
      [] a.kind = "dict" /\ b.kind = "dict" ->
            /\ DOMAIN a.map = DOMAIN b.map
            /\ \A k \in DOMAIN a.map : SameValue(a.map[k], b.map[k])
      [] OTHER -> a = b

\* C1: decoding the bytes encode_next wrote for a value of a non-streaming
\* rule returns an equal value and reads exactly those bytes.
RoundTrip ==
    (/\ enc.called /\ enc.error = "" /\ NonStreaming(enc.obj)
     /\ JustDecoded /\ dec.from = 0 /\ dec.src = enc.out) =>
        /\ dec.error = ""
        /\ SameValue(dec.result, enc.obj)
        /\ dec.pos = Len(enc.out)

(***************************************************************************)
(* Properties of the dispatch tables, checked under SpecTables.            *)
(***************************************************************************)
\* what the decoder session returns or raises on each source from here on
SessionDecodes ==
    [src \in TableSources |-> decode_next(SessionDecoderDispatch, FALSE, src, 0)]

\* what the encoder session returns or raises for each value from here on
SessionEncodes ==
    [obj \in TableValues |-> encode_next(SessionEncoderDispatch, obj)]

\* C8: adding, replacing or removing an entry of a class table after a
\* session was constructed changes nothing in how that decoder session
\* decodes or that encoder session encodes.
SessionIsolation ==
    [][/\ (dec.live /\ decoder_dispatch' # decoder_dispatch)
             => SessionDecodes' = SessionDecodes
       /\ (enc.live /\ encoder_dispatch' # encoder_dispatch)
             => SessionEncodes' = SessionEncodes]_vars
=============================================================================
